---- MODULE Spec2Model ----
(***************************************************************************)
(* Model of the DNS records manager (hrishin/dns-records).                 *)
(*                                                                         *)
(* The reconciliation engine (RecordManager, core/record_manager.py) is    *)
(* modelled as the code computes it.  A Python string is a sequence of     *)
(* one-character strings, so that rstrip('.'), endswith() and == are       *)
(* computed and not assumed.  A record is the pair of the two dictionary   *)
(* keys the engine reads, fqdn and ipv4; an ipv4 is an opaque string       *)
(* because the engine only compares it for equality.                       *)
(***************************************************************************)
EXTENDS Integers, Sequences, FiniteSets, TLC

VARIABLES
    current,      \* current_records handed to analyze_changes (item list)
    currentKind,  \* "records": a list (or a dict, as its item list); "other"
    desired,      \* desired_records handed to analyze_changes
    zone,         \* zone handed to analyze_changes
    changes,      \* outcome of analyze_changes
    csv_errors,   \* outcome of validate_csv_structure(desired)
    q_fqdn,       \* argument fqdn of a direct _is_in_zone call
    q_zone,       \* argument zone of a direct _is_in_zone call
    q_result,     \* its return value
    csv_rows,     \* rows of the CSV file handed to process_csv
    dry_run,      \* dry_run argument of process_csv
    mock_records, \* MockDNSProvider.records, the provider's collection
    mock_records0,\* the provider's collection when the run started
    pc,           \* position of process_csv
    idx,          \* position of _apply_changes in the change set
    ops,          \* provider operations attempted so far, with their outcome
    success_count,\* success_count of _apply_changes
    result,       \* return value of process_csv
    last_call,    \* the last direct call of a provider operation
    calls,        \* number of direct calls of provider operations so far
    w_op,         \* the write called on BINDProvider
    w_record,     \* its record argument
    w_zone_file,  \* BINDProvider.zone_file is configured
    w_pc,         \* position of the write
    w_events,     \* what the write met outside the process, in order
    w_sent,       \* the UPDATE messages handed to dns.query.tcp, in order
    w_out,        \* how the write ended
    w_attempts,   \* the paths the write has entered, in order
    w_file,       \* the text of the zone file: its serial and record lines
    w_file0,      \* the text of the zone file when the write was called
    w_success_count, \* success_count of the caller of the write
    g_pc,         \* position of BINDProvider.get_records
    g_sub,        \* position in common_subdomains
    g_answers,    \* what each source answered, in the order asked
    g_records,    \* the list records of get_records
    g_out,        \* how get_records ended
    c_call,       \* the calls of the concurrent callers of the mock provider
    y_cycle       \* the concurrent reconcile-and-apply cycles

engineVars == <<current, currentKind, desired, zone, changes, csv_errors>>

zoneVars == <<q_fqdn, q_zone, q_result>>

applyVars == <<csv_rows, dry_run, mock_records, mock_records0, pc, idx, ops,
               success_count, result>>

mockVars == <<last_call, calls>>

readVars == <<g_pc, g_sub, g_answers, g_records, g_out>>

\* the variables of the specifications that follow the write of the provider
concVars == <<c_call>>

cycleVars == <<y_cycle>>

extraVars == <<readVars, concVars, cycleVars>>

wireVars == <<w_op, w_record, w_zone_file, w_pc, w_events, w_sent, w_out,
              w_attempts, w_file, w_file0, w_success_count>>

vars == <<current, currentKind, desired, zone, changes, csv_errors,
          q_fqdn, q_zone, q_result, csv_rows, dry_run, mock_records,
          mock_records0,
          pc, idx, ops, success_count, result, last_call, calls,
          w_op, w_record, w_zone_file, w_pc, w_events, w_sent, w_out,
          w_attempts, w_file, w_file0, w_success_count,
          g_pc, g_sub, g_answers, g_records, g_out, c_call,
          y_cycle>>

(***************************************************************************)
(* Bounds of the model.                                                    *)
(***************************************************************************)
MaxCurrent == 2
MaxDesired == 2
MaxFqdnLen == 3
MaxZoneLen == 2
MaxRows == 2
MaxStored == 2
MaxCalls == 3
MaxFileLines == 1
MaxSubdomains == 2
MaxTransfer == 2
MaxCallers == 2
MaxCycles == 2

(***************************************************************************)
(* Input alphabets.                                                        *)
(***************************************************************************)
\* fqdns of the reconciliation inputs: a name in the zone, the same name with
\* a trailing dot, the same name in upper case, a name that ends with the
\* zone's text without a label boundary, and a name of another zone
Fqdns ==
    { <<"a", ".", "z">>,
      <<"a", ".", "z", ".">>,
      <<"A", ".", "z">>,
      <<"a", ".", "a", "z">>,
      <<"a", ".", "y">> }

Zones == { <<"z">>, <<"z", ".">> }

Ips == { "1.1.1.1", "2.2.2.2" }

Records == [fqdn : Fqdns, ipv4 : Ips]

\* what the provider may hold when a run starts: also an address that no CSV
\* row of the model asks for
StoredIps == Ips \cup { "3.3.3.3" }

StoredRecords == [fqdn : Fqdns, ipv4 : StoredIps]

\* characters of the strings given to a direct _is_in_zone call
Chars == { "a", "z", "." }

SeqsUpTo(S, n) == UNION { [1..k -> S] : k \in 0..n }

(***************************************************************************)
(* String helpers: Python's str.rstrip('.') and str.endswith.              *)
(***************************************************************************)
RECURSIVE rstrip_dot(_)
rstrip_dot(s) ==
    IF s = <<>> THEN s
    ELSE IF s[Len(s)] = "." THEN rstrip_dot(SubSeq(s, 1, Len(s) - 1))
    ELSE s

endswith(s, suffix) ==
    /\ Len(suffix) <= Len(s)
    /\ SubSeq(s, Len(s) - Len(suffix) + 1, Len(s)) = suffix

(***************************************************************************)
(* RecordManager helpers.                                                  *)
(***************************************************************************)
\* fqdn.rstrip('.') if fqdn else fqdn
_normalize_fqdn(fqdn) == IF fqdn = <<>> THEN fqdn ELSE rstrip_dot(fqdn)

\* {(normalize(r.fqdn), r.ipv4) for r in records}
_records_to_set(records) ==
    { <<_normalize_fqdn(records[i].fqdn), records[i].ipv4>> :
        i \in 1..Len(records) }

None == [none |-> TRUE]

\* the first record of current_records with the normalized fqdn, or None
_find_existing_record(current_records, fqdn) ==
    LET normalized_fqdn == _normalize_fqdn(fqdn)
        hits == { i \in 1..Len(current_records) :
                    _normalize_fqdn(current_records[i].fqdn) = normalized_fqdn }
    IN  IF hits = {} THEN None
        ELSE current_records[CHOOSE i \in hits : \A j \in hits : i <= j]

\* the same search comparing the fqdns as written
_fqdn_in_desired_raw(fqdn, desired_records) ==
    \E i \in 1..Len(desired_records) : desired_records[i].fqdn = fqdn

_fqdn_in_desired(fqdn, desired_records) ==
    LET normalized_fqdn == _normalize_fqdn(fqdn)
    IN  \E i \in 1..Len(desired_records) :
            _normalize_fqdn(desired_records[i].fqdn) = normalized_fqdn

_is_in_zone(fqdn, z) ==
    LET normalized_fqdn == _normalize_fqdn(fqdn)
        normalized_zone == _normalize_fqdn(z)
    IN  \/ endswith(normalized_fqdn, normalized_zone)
        \/ normalized_fqdn = normalized_zone

\* TRUE iff _validate_zone_safety returns without raising ValueError
_validate_zone_safety(current_records, desired_records, z) ==
    \A i \in 1..Len(desired_records) : _is_in_zone(desired_records[i].fqdn, z)

\* the total counting creates and updates only
total_changes_without_deletes(creates, updates, deletes) ==
    Len(creates) + Len(updates)

total_changes_of(creates, updates, deletes) ==
    Len(creates) + Len(updates) + Len(deletes)

\* the dictionary analyze_changes returns, or the error it raises
analyze_changes(current_records, kind, desired_records, z) ==
    IF kind # "records"
    THEN [status |-> "error", error |-> "ValueError: current_records"]
    ELSE
    LET current_set == _records_to_set(current_records)
        desired_set == _records_to_set(desired_records)
        IsNoChange(d) == <<d.fqdn, d.ipv4>> \in current_set
        IsUpdate(d) ==
            /\ <<d.fqdn, d.ipv4>> \notin current_set
            /\ _find_existing_record(current_records, d.fqdn) # None
        IsCreate(d) ==
            /\ <<d.fqdn, d.ipv4>> \notin current_set
            /\ _find_existing_record(current_records, d.fqdn) = None
        IsDelete(c) ==
            /\ _is_in_zone(c.fqdn, z)
            /\ <<c.fqdn, c.ipv4>> \notin desired_set
            /\ ~ _fqdn_in_desired(c.fqdn, desired_records)
        creates == SelectSeq(desired_records, IsCreate)
        updates == SelectSeq(desired_records, IsUpdate)
        deletes == SelectSeq(current_records, IsDelete)
        no_changes == SelectSeq(desired_records, IsNoChange)
    IN  IF ~ _validate_zone_safety(current_records, desired_records, z)
        THEN [status |-> "error", error |-> "ValueError: zone"]
        ELSE [status |-> "ok",
              creates |-> creates,
              updates |-> updates,
              deletes |-> deletes,
              no_changes |-> no_changes,
              total_changes |-> total_changes_of(creates, updates, deletes)]

\* the list of errors validate_csv_structure returns, as (row, kind) pairs
RECURSIVE csv_errors_from(_, _)
csv_errors_from(csv_records, i) ==
    IF i > Len(csv_records) THEN <<>>
    ELSE
    LET record == csv_records[i]
        normalized_fqdn == _normalize_fqdn(record.fqdn)
        fqdn_count == Cardinality({ j \in 1..Len(csv_records) :
                        _normalize_fqdn(csv_records[j].fqdn) = normalized_fqdn })
        here == IF record.fqdn = <<>>
                THEN << [row |-> i + 1, kind |-> "empty"] >>
                ELSE IF fqdn_count > 1
                THEN << [row |-> i + 1, kind |-> "duplicate"] >>
                ELSE <<>>
    IN  here \o csv_errors_from(csv_records, i + 1)

validate_csv_structure(csv_records) == csv_errors_from(csv_records, 1)

(***************************************************************************)
(* The reconciliation engine as a state machine: the inputs are drawn in   *)
(* Init, each operation is one action.                                     *)
(***************************************************************************)
NotRun == [status |-> "none"]

\* process_csv is not running and the provider is empty
ApplyIdle ==
    /\ csv_rows = <<>>
    /\ dry_run = FALSE
    /\ mock_records = <<>>
    /\ mock_records0 = <<>>
    /\ pc = "idle"
    /\ idx = 0
    /\ ops = <<>>
    /\ success_count = 0
    /\ result = NotRun

\* no provider operation has been called directly
MockIdle == last_call = NotRun /\ calls = 0

\* no write of the BIND provider has been called
WireIdle ==
    /\ w_op = "none"
    /\ w_record = NotRun
    /\ w_zone_file = FALSE
    /\ w_pc = "idle"
    /\ w_events = <<>>
    /\ w_sent = <<>>
    /\ w_out = NotRun
    /\ w_attempts = <<>>
    /\ w_file = NotRun
    /\ w_file0 = NotRun
    /\ w_success_count = 0

\* get_records of the BIND provider has not been called
ReadIdle ==
    /\ g_pc = "idle"
    /\ g_sub = 0
    /\ g_answers = <<>>
    /\ g_records = <<>>
    /\ g_out = NotRun

\* no caller is inside the mock provider
ConcIdle == c_call = <<>>

\* no reconcile-and-apply cycle runs beside another
CycleIdle == y_cycle = <<>>

ExtraIdle == ReadIdle /\ ConcIdle /\ CycleIdle

Init ==
    /\ currentKind \in {"records", "other"}
    /\ current \in SeqsUpTo(Records, MaxCurrent)
    /\ currentKind = "other" => current = <<>>
    /\ desired \in SeqsUpTo(Records, MaxDesired)
    /\ zone \in Zones
    /\ changes = NotRun
    /\ csv_errors = NotRun
    /\ q_fqdn = <<>>
    /\ q_zone = <<>>
    /\ q_result = NotRun
    /\ ApplyIdle
    /\ MockIdle
    /\ WireIdle
    /\ ExtraIdle

AnalyzeChanges ==
    /\ changes = NotRun
    /\ changes' = analyze_changes(current, currentKind, desired, zone)
    /\ UNCHANGED <<current, currentKind, desired, zone, csv_errors,
                   q_fqdn, q_zone, q_result, applyVars, mockVars, wireVars, extraVars>>

ValidateCsvStructure ==
    /\ csv_errors = NotRun
    /\ csv_errors' = [status |-> "ok", errors |-> validate_csv_structure(desired)]
    /\ UNCHANGED <<current, currentKind, desired, zone, changes,
                   q_fqdn, q_zone, q_result, applyVars, mockVars, wireVars, extraVars>>

Next == AnalyzeChanges \/ ValidateCsvStructure

Spec == Init /\ [][Next]_vars

(***************************************************************************)
(* The zone boundary check called on its own, on every short string and    *)
(* every short zone that names at least one label.                         *)
(***************************************************************************)
InitZone ==
    /\ q_fqdn \in SeqsUpTo(Chars, MaxFqdnLen)
    /\ q_zone \in { z \in SeqsUpTo(Chars, MaxZoneLen) : _normalize_fqdn(z) # <<>> }
    /\ q_result = NotRun
    /\ current = <<>>
    /\ currentKind = "records"
    /\ desired = <<>>
    /\ zone = q_zone
    /\ changes = NotRun
    /\ csv_errors = NotRun
    /\ ApplyIdle
    /\ MockIdle
    /\ WireIdle
    /\ ExtraIdle

IsInZone ==
    /\ q_result = NotRun
    /\ q_result' = [status |-> "ok", value |-> _is_in_zone(q_fqdn, q_zone)]
    /\ UNCHANGED <<current, currentKind, desired, zone, changes, csv_errors,
                   q_fqdn, q_zone, applyVars, mockVars, wireVars, extraVars>>

NextZone == IsInZone

SpecZone == InitZone /\ [][NextZone]_vars

(***************************************************************************)
(* MockDNSProvider (providers/mock_provider.py): an ordered collection of  *)
(* records.  An operation returns the new collection and whether it        *)
(* returned normally (ok) or raised.                                       *)
(***************************************************************************)
mock_normalize_fqdn(fqdn) == IF fqdn = <<>> THEN fqdn ELSE rstrip_dot(fqdn)

\* index of the first stored record with the normalized fqdn, 0 if none
mock_first_index(recs, fqdn) ==
    LET normalized_fqdn == mock_normalize_fqdn(fqdn)
        hits == { i \in 1..Len(recs) :
                    mock_normalize_fqdn(recs[i].fqdn) = normalized_fqdn }
    IN  IF hits = {} THEN 0 ELSE CHOOSE i \in hits : \A j \in hits : i <= j

mock_get_records(recs) == recs

mock_create_record(recs, record) ==
    [ok |-> TRUE, records |-> Append(recs, record)]

\* an update that appends the record when the fqdn is not stored
mock_update_or_create(recs, record) ==
    LET i == mock_first_index(recs, record.fqdn)
    IN  IF i = 0 THEN [ok |-> TRUE, records |-> Append(recs, record)]
        ELSE [ok |-> TRUE, records |-> [recs EXCEPT ![i] = record]]

mock_update_record(recs, record) ==
    LET i == mock_first_index(recs, record.fqdn)
    IN  IF i = 0 THEN [ok |-> FALSE, records |-> recs]
        ELSE [ok |-> TRUE, records |-> [recs EXCEPT ![i] = record]]

mock_delete_record(recs, record) ==
    LET i == mock_first_index(recs, record.fqdn)
    IN  IF i = 0 THEN [ok |-> FALSE, records |-> recs]
        ELSE [ok |-> TRUE,
              records |-> SubSeq(recs, 1, i - 1) \o SubSeq(recs, i + 1, Len(recs))]

\* one call of the provider the manager holds: the operation of the mock, or
\* an exception raised before the collection is touched (fault), as a
\* provider that talks to a server raises on a transport failure
provider_call(kind, recs, record, fault) ==
    IF fault THEN [ok |-> FALSE, records |-> recs]
    ELSE IF kind = "create" THEN mock_create_record(recs, record)
    ELSE IF kind = "update" THEN mock_update_record(recs, record)
    ELSE mock_delete_record(recs, record)

(***************************************************************************)
(* DNSManager (core/dns_manager.py): process_csv and _apply_changes.       *)
(***************************************************************************)
LabelChars == { "a", "A", "y", "z" }

\* validate_fqdn on the strings of the model: no trailing dot, at least two
\* labels, no empty label, every label made of letters
validate_fqdn(fqdn) ==
    LET dots == { i \in 1..Len(fqdn) : fqdn[i] = "." }
    IN  /\ fqdn # <<>>
        /\ fqdn[Len(fqdn)] # "."
        /\ Cardinality(dots) + 1 >= 2
        /\ fqdn[1] # "."
        /\ \A i \in dots : i + 1 \notin dots
        /\ \A i \in 1..Len(fqdn) : fqdn[i] \in LabelChars \cup {"."}

\* the rows _parse_csv keeps; every ipv4 of the model is a valid dotted quad
_parse_csv(rows) ==
    LET Valid(row) == validate_fqdn(row.fqdn)
    IN  SelectSeq(rows, Valid)

\* a run that goes on to read the provider whatever was parsed
after_parse_going_on(records) == [pc |-> "fetch", result |-> NotRun]

\* where process_csv goes after _parse_csv: if not records: return False
after_parse(records) ==
    IF records = <<>> THEN [pc |-> "done", result |-> FALSE]
    ELSE [pc |-> "fetch", result |-> NotRun]

\* where process_csv goes after analyze_changes, and what it returns there
after_analysis_ignoring_dry_run(chg, dry) ==
    IF chg.status # "ok" THEN [pc |-> "done", result |-> FALSE]
    ELSE IF chg.total_changes > 0 THEN [pc |-> "apply", result |-> NotRun]
    ELSE [pc |-> "done", result |-> TRUE]

after_analysis(chg, dry) ==
    IF chg.status # "ok" THEN [pc |-> "done", result |-> FALSE]
    ELSE IF dry THEN [pc |-> "done", result |-> TRUE]
    ELSE IF chg.total_changes > 0 THEN [pc |-> "apply", result |-> NotRun]
    ELSE [pc |-> "done", result |-> TRUE]

Tagged(kind, recs) == [i \in 1..Len(recs) |-> [op |-> kind, record |-> recs[i]]]

\* the deletes first, then the creates, then the updates
apply_plan_deletes_first(chg) ==
    Tagged("delete", chg.deletes) \o Tagged("create", chg.creates)
        \o Tagged("update", chg.updates)

\* the operations of the three loops of _apply_changes, in their order
apply_plan(chg) ==
    Tagged("create", chg.creates) \o Tagged("update", chg.updates)
        \o Tagged("delete", chg.deletes)

\* a batch that gives up at the first failure
next_index_stop_on_failure(i, ok, n) == IF ok THEN i + 1 ELSE n + 1

\* the position after an operation: its exception is caught in the loop
next_index(i, ok, n) == i + 1

\* success whenever some operation succeeded
apply_result_some(count, total) == count > 0

\* return success_count == total_changes
apply_result(count, total) == count = total

(***************************************************************************)
(* process_csv against the in-memory provider, one action per step.        *)
(***************************************************************************)
InitApply ==
    /\ csv_rows \in SeqsUpTo(Records, MaxRows)
    /\ dry_run \in BOOLEAN
    /\ mock_records \in SeqsUpTo(StoredRecords, MaxStored)
    /\ mock_records0 = mock_records
    /\ zone \in Zones
    /\ pc = "start"
    /\ idx = 0
    /\ ops = <<>>
    /\ success_count = 0
    /\ result = NotRun
    /\ current = <<>>
    /\ currentKind = "records"
    /\ desired = <<>>
    /\ changes = NotRun
    /\ csv_errors = NotRun
    /\ q_fqdn = <<>>
    /\ q_zone = <<>>
    /\ q_result = NotRun
    /\ MockIdle
    /\ WireIdle
    /\ ExtraIdle

\* records = self._parse_csv(csv_path); if not records: return False
ParseCsv ==
    /\ pc = "start"
    /\ desired' = _parse_csv(csv_rows)
    /\ pc' = after_parse(desired').pc
    /\ result' = after_parse(desired').result
    /\ UNCHANGED <<current, currentKind, zone, changes, csv_errors, zoneVars,
                   csv_rows, dry_run, mock_records, mock_records0, idx, ops,
                   success_count, mockVars, wireVars, extraVars>>

\* current_records = self.dns_client.get_records(zone)
GetRecords ==
    /\ pc = "fetch"
    /\ current' = mock_get_records(mock_records)
    /\ pc' = "analyze"
    /\ UNCHANGED <<currentKind, desired, zone, changes, csv_errors, zoneVars,
                   csv_rows, dry_run, mock_records, mock_records0, idx, ops,
                   success_count, result, mockVars, wireVars, extraVars>>

\* changes = analyze_changes(...), then the dry-run and total_changes tests
Analyze ==
    /\ pc = "analyze"
    /\ changes' = analyze_changes(current, currentKind, desired, zone)
    /\ pc' = after_analysis(changes', dry_run).pc
    /\ result' = after_analysis(changes', dry_run).result
    /\ idx' = 1
    /\ UNCHANGED <<current, currentKind, desired, zone, csv_errors, zoneVars,
                   csv_rows, dry_run, mock_records, mock_records0, ops,
                   success_count, mockVars, wireVars, extraVars>>

\* one iteration of a loop of _apply_changes
ApplyOp ==
    /\ pc = "apply"
    /\ idx <= Len(apply_plan(changes))
    /\ \E fault \in BOOLEAN :
        LET op == apply_plan(changes)[idx]
            out == provider_call(op.op, mock_records, op.record, fault)
        IN  /\ mock_records' = out.records
            /\ ops' = Append(ops, [op |-> op.op, record |-> op.record,
                                   ok |-> out.ok])
            /\ success_count' = IF out.ok THEN success_count + 1
                                ELSE success_count
            /\ idx' = next_index(idx, out.ok, Len(apply_plan(changes)))
    /\ UNCHANGED <<engineVars, zoneVars, csv_rows, dry_run, mock_records0,
                   pc, result, mockVars, wireVars, extraVars>>

\* return success_count == total_changes, handed on by process_csv
ApplyFinish ==
    /\ pc = "apply"
    /\ idx > Len(apply_plan(changes))
    /\ result' = apply_result(success_count, changes.total_changes)
    /\ pc' = "done"
    /\ UNCHANGED <<engineVars, zoneVars, csv_rows, dry_run, mock_records,
                   mock_records0, idx, ops, success_count, mockVars, wireVars, extraVars>>

NextApply == ParseCsv \/ GetRecords \/ Analyze \/ ApplyOp \/ ApplyFinish

SpecApply == InitApply /\ [][NextApply]_vars

(***************************************************************************)
(* The in-memory provider called directly: a freshly built provider and    *)
(* any sequence of create_record, update_record and delete_record calls.   *)
(***************************************************************************)
InitMock ==
    /\ mock_records = <<>>
    /\ mock_records0 = <<>>
    /\ last_call = NotRun
    /\ calls = 0
    /\ csv_rows = <<>>
    /\ dry_run = FALSE
    /\ pc = "idle"
    /\ idx = 0
    /\ ops = <<>>
    /\ success_count = 0
    /\ result = NotRun
    /\ current = <<>>
    /\ currentKind = "records"
    /\ desired = <<>>
    /\ zone \in Zones
    /\ changes = NotRun
    /\ csv_errors = NotRun
    /\ q_fqdn = <<>>
    /\ q_zone = <<>>
    /\ q_result = NotRun
    /\ WireIdle
    /\ ExtraIdle

\* what a direct call leaves behind: the collection and the record of the call
Called(kind, record, out) ==
    /\ mock_records' = out.records
    /\ last_call' = [status |-> "ok", op |-> kind, record |-> record,
                     ok |-> out.ok, before |-> mock_records]
    /\ calls' = calls + 1
    /\ UNCHANGED <<engineVars, zoneVars, csv_rows, dry_run, mock_records0, pc,
                   idx, ops, success_count, result,
                   wireVars, extraVars>>

CreateRecord ==
    /\ calls < MaxCalls
    /\ \E record \in Records :
        Called("create", record, mock_create_record(mock_records, record))

UpdateRecord ==
    /\ calls < MaxCalls
    /\ \E record \in Records :
        Called("update", record, mock_update_record(mock_records, record))

DeleteRecord ==
    /\ calls < MaxCalls
    /\ \E record \in Records :
        Called("delete", record, mock_delete_record(mock_records, record))

NextMock == CreateRecord \/ UpdateRecord \/ DeleteRecord

SpecMock == InitMock /\ [][NextMock]_vars

(***************************************************************************)
(* BINDProvider (providers/bind_provider.py): one write, step by step.     *)
(* What the name server, the transport and the rndc tool answer is chosen  *)
(* by the environment.                                                     *)
(***************************************************************************)
Rcodes == { "NOERROR", "FORMERR", "SERVFAIL", "NXDOMAIN", "REFUSED", "NOTAUTH" }

\* what dns.query.tcp does: it raises, or it returns a response with an rcode
Replies == Rcodes \cup { "transport_error" }

\* what subprocess.run(["rndc", ...]) does: an exit status, or it raises
RndcExits == { "0", "1", "exception" }

\* the serial of the zone file before the write
InitialSerial == 2024010101

Event(ev, arg) == [ev |-> ev, arg |-> arg]

Returns(value) == [status |-> "returned", value |-> value]

Raised == [status |-> "raised"]

\* the UPDATE message of a write: _create_update_message for create ("add")
\* and delete ("delete"), and the delete followed by the add of update_record
update_message(op, record) ==
    LET add == [action |-> "add", fqdn |-> record.fqdn, ipv4 |-> record.ipv4]
        del == [action |-> "delete", fqdn |-> record.fqdn, ipv4 |-> "any"]
    IN  IF op = "create" THEN <<add>>
        ELSE IF op = "delete" THEN <<del>>
        ELSE <<del, add>>

\* every write tries the control tool first when a zone file is configured
tries_rndc_first_any_write(op, zone_file, rndc_available) ==
    zone_file /\ rndc_available

\* whether update_record tries _update_record_with_rndc first
tries_rndc_first(op, zone_file, rndc_available) ==
    op = "update" /\ zone_file /\ rndc_available

\* a write that logs the response code and returns normally all the same
protocol_outcome_logged_only(reply) ==
    IF reply = "transport_error" THEN Raised ELSE Returns("None")

\* how the protocol path ends: dns.query.tcp raised, or the rcode is tested
protocol_outcome(reply) ==
    IF reply = "transport_error" THEN Raised
    ELSE IF reply = "NOERROR" THEN Returns("None")
    ELSE Raised

\* _run_rndc_command: True on exit status 0, False otherwise, never raises
_run_rndc_command(exit) == exit = "0"

\* the zone file a provider may be configured with: a serial and the lines
\* of its A records
ZoneFiles == [serial : {InitialSerial}, lines : SeqsUpTo(Records, MaxFileLines)]

InitWire ==
    /\ w_op \in { "create", "update", "delete" }
    /\ w_record \in Records
    /\ w_zone_file \in BOOLEAN
    /\ w_pc = "start"
    /\ w_events = <<>>
    /\ w_sent = <<>>
    /\ w_out = NotRun
    /\ w_attempts = <<>>
    /\ IF w_zone_file THEN w_file \in ZoneFiles ELSE w_file = NotRun
    /\ w_file0 = w_file
    /\ w_success_count = 0
    /\ current = <<>>
    /\ currentKind = "records"
    /\ desired = <<>>
    /\ zone \in Zones
    /\ changes = NotRun
    /\ csv_errors = NotRun
    /\ q_fqdn = <<>>
    /\ q_zone = <<>>
    /\ q_result = NotRun
    /\ ApplyIdle
    /\ MockIdle
    /\ ExtraIdle

\* entry of a write: create_record and delete_record go to the protocol path;
\* update_record tests self.zone_file and self._check_rndc_availability()
WireStart ==
    /\ w_pc = "start"
    /\ \E rndc_available \in BOOLEAN :
        LET first == IF tries_rndc_first(w_op, w_zone_file, rndc_available)
                     THEN "admin" ELSE "protocol"
        IN  /\ w_events' = IF w_op = "update" /\ w_zone_file
                           THEN Append(w_events, Event("which",
                                   IF rndc_available THEN "found" ELSE "missing"))
                           ELSE w_events
            /\ w_pc' = first
            /\ w_attempts' = Append(w_attempts, first)
    /\ UNCHANGED <<engineVars, zoneVars, applyVars, mockVars, extraVars,
                   w_op, w_record,
                   w_zone_file, w_sent, w_out, w_file, w_file0,
                   w_success_count>>

\* _update_record_with_rndc: it logs and calls reload_zone, the zone file is
\* not opened; reload_zone tests the tool again and raises when it is
\* missing, which update_record catches to fall back; otherwise the value of
\* _run_rndc_command is returned by update_record
WireAdminAttempt ==
    /\ w_pc = "admin"
    /\ \E rndc_available \in BOOLEAN :
        IF ~rndc_available
        THEN /\ w_events' = Append(w_events, Event("which", "missing"))
             /\ w_pc' = "protocol"
             /\ w_attempts' = Append(w_attempts, "protocol")
             /\ w_out' = w_out
        ELSE \E exit \in RndcExits :
             /\ w_events' = w_events \o
                    << Event("which", "found"), Event("rndc reload", exit) >>
             /\ w_pc' = "done"
             /\ w_attempts' = w_attempts
             /\ w_out' = Returns(IF _run_rndc_command(exit) THEN "True"
                                                       ELSE "False")
    /\ UNCHANGED <<engineVars, zoneVars, applyVars, mockVars, extraVars,
                   w_op, w_record,
                   w_zone_file, w_sent, w_file, w_file0, w_success_count>>

\* the protocol path: one dns.query.tcp call, then the test of the rcode
WireProtocolAttempt ==
    /\ w_pc = "protocol"
    /\ \E reply \in Replies :
        /\ w_sent' = Append(w_sent, update_message(w_op, w_record))
        /\ w_events' = Append(w_events, Event("dns.query.tcp", reply))
        /\ w_out' = protocol_outcome(reply)
    /\ w_pc' = "done"
    /\ UNCHANGED <<engineVars, zoneVars, applyVars, mockVars, extraVars,
                   w_op, w_record,
                   w_zone_file, w_attempts, w_file, w_file0, w_success_count>>

\* _apply_changes: try: self.dns_client.update_record(zone, record);
\* success_count += 1; except Exception: (logged)
counts(out) == out.status = "returned"

\* the statement after the call in the loop of _apply_changes
WireCount ==
    /\ w_pc = "done"
    /\ w_success_count' = IF counts(w_out) THEN w_success_count + 1
                          ELSE w_success_count
    /\ w_pc' = "counted"
    /\ UNCHANGED <<engineVars, zoneVars, applyVars, mockVars, extraVars,
                   w_op, w_record,
                   w_zone_file, w_events, w_sent, w_out, w_attempts, w_file,
                   w_file0>>

NextWire == WireStart \/ WireAdminAttempt \/ WireProtocolAttempt \/ WireCount

SpecWire == InitWire /\ [][NextWire]_vars

(***************************************************************************)
(* BINDProvider.get_records: the apex query, the queries of the common     *)
(* subdomains, the zone transfer, then the removal of duplicates.  What    *)
(* the resolver and the transfer answer is chosen by the environment.      *)
(***************************************************************************)
bind_normalize_fqdn(fqdn) == IF fqdn = <<>> THEN fqdn ELSE rstrip_dot(fqdn)

\* the labels get_records asks for, the first MaxSubdomains of them
all_common_subdomains ==
    << <<"m", "g", "m", "t">>, <<"i", "p", "m", "i">>, <<"s", "v", "m">>,
       <<"a", "d", "m", "i", "n">>,
       <<"m", "o", "n", "i", "t", "o", "r", "i", "n", "g">>,
       <<"w", "e", "b">>, <<"d", "b">>,
       <<"l", "o", "g", "g", "i", "n", "g">> >>

common_subdomains == SubSeq(all_common_subdomains, 1, MaxSubdomains)

\* f"{subdomain}.{zone}"
subdomain_fqdn(subdomain, z) == subdomain \o <<".">> \o z

\* what self.resolver.resolve does: an answer with addresses, or an
\* exception: the name does not exist, or the server cannot be reached
QueryAnswers ==
    { [status |-> "answer", ips |-> ips] :
        ips \in { <<"1.1.1.1">>, <<"2.2.2.2">>, <<"1.1.1.1", "2.2.2.2">> } }
    \cup { [status |-> "nxdomain", ips |-> <<>>],
           [status |-> "transport_error", ips |-> <<>>] }

\* the names a transferred zone may hold, as derelativize gives them: the
\* apex, a common subdomain and another name, each with the root dot
TransferNames(z) ==
    LET n == bind_normalize_fqdn(z)
    IN  { n \o <<".">>,
          subdomain_fqdn(all_common_subdomains[1], n) \o <<".">>,
          subdomain_fqdn(<<"a">>, n) \o <<".">> }

TransferRecords(z) == [fqdn : TransferNames(z), ipv4 : Ips, ttl : {300, 3600}]

\* what dns.zone.from_xfr does: a zone object, or an exception
TransferAnswers(z) ==
    { [status |-> "zone", nodes |-> nodes] :
        nodes \in SeqsUpTo(TransferRecords(z), MaxTransfer) }
    \cup { [status |-> "refused", nodes |-> <<>>],
           [status |-> "transport_error", nodes |-> <<>>] }

\* _query_dns: the addresses, or [] on any exception
_query_dns(answer) ==
    IF answer.status = "answer" THEN answer.ips ELSE <<>>

\* _zone_transfer: the zone object, or None on any exception
_zone_transfer(answer) ==
    IF answer.status = "zone" THEN answer ELSE None

\* the records appended for the addresses a query of fqdn returned
queried_records(fqdn, ips) ==
    [i \in 1..Len(ips) |->
        [fqdn |-> bind_normalize_fqdn(fqdn), ipv4 |-> ips[i], ttl |-> 300]]

\* the records appended for the A rdatasets of a transferred zone
transferred_records(zone_obj) ==
    IF zone_obj = None THEN <<>>
    ELSE [i \in 1..Len(zone_obj.nodes) |->
            [fqdn |-> bind_normalize_fqdn(zone_obj.nodes[i].fqdn),
             ipv4 |-> zone_obj.nodes[i].ipv4, ttl |-> zone_obj.nodes[i].ttl]]

\* a removal of duplicates that looks at the fqdn alone
unique_records_by_fqdn(records) ==
    LET Keep(i) == \A j \in 1..(i - 1) : records[j].fqdn # records[i].fqdn
        kept == { i \in 1..Len(records) : Keep(i) }
        F[i \in 0..Len(records)] ==
            IF i = 0 THEN <<>>
            ELSE IF i \in kept THEN Append(F[i - 1], records[i]) ELSE F[i - 1]
    IN  F[Len(records)]

\* the loop over records with the set seen: the first record of every
\* (fqdn, ipv4) key is kept, in order
unique_records(records) ==
    LET Keep(i) == \A j \in 1..(i - 1) :
                      <<records[j].fqdn, records[j].ipv4>>
                          # <<records[i].fqdn, records[i].ipv4>>
        kept == { i \in 1..Len(records) : Keep(i) }
        F[i \in 0..Len(records)] ==
            IF i = 0 THEN <<>>
            ELSE IF i \in kept THEN Append(F[i - 1], records[i]) ELSE F[i - 1]
    IN  F[Len(records)]

InitRead ==
    /\ zone \in Zones
    /\ g_pc = "apex"
    /\ g_sub = 0
    /\ g_answers = <<>>
    /\ g_records = <<>>
    /\ g_out = NotRun
    /\ current = <<>>
    /\ currentKind = "records"
    /\ desired = <<>>
    /\ changes = NotRun
    /\ csv_errors = NotRun
    /\ q_fqdn = <<>>
    /\ q_zone = <<>>
    /\ q_result = NotRun
    /\ ApplyIdle
    /\ MockIdle
    /\ WireIdle
    /\ ConcIdle
    /\ CycleIdle

\* zone_a_records = self._query_dns(zone, "A") and its loop; _query_dns has
\* caught every exception, so the except clause around it sees none
QueryApex ==
    /\ g_pc = "apex"
    /\ \E answer \in QueryAnswers :
        /\ g_answers' = Append(g_answers,
                [source |-> "apex", fqdn |-> zone, answer |-> answer])
        /\ g_records' = g_records \o
                          queried_records(zone, _query_dns(answer))
    /\ g_pc' = "subdomains"
    /\ g_sub' = 1
    /\ UNCHANGED <<engineVars, zoneVars, applyVars, mockVars, wireVars, concVars, cycleVars,
                   g_out>>

\* one iteration of the loop over common_subdomains
QuerySubdomain ==
    /\ g_pc = "subdomains"
    /\ g_sub <= Len(common_subdomains)
    /\ \E answer \in QueryAnswers :
        LET fqdn == subdomain_fqdn(common_subdomains[g_sub], zone)
        IN  /\ g_answers' = Append(g_answers,
                  [source |-> "subdomain", fqdn |-> fqdn, answer |-> answer])
            /\ g_records' = g_records \o
                              queried_records(fqdn, _query_dns(answer))
    /\ g_sub' = g_sub + 1
    /\ UNCHANGED <<engineVars, zoneVars, applyVars, mockVars, wireVars,
                   concVars, cycleVars, g_pc, g_out>>

\* the zone transfer, the removal of duplicates and the return
ZoneTransfer ==
    /\ g_pc = "subdomains"
    /\ g_sub > Len(common_subdomains)
    /\ \E answer \in TransferAnswers(zone) :
        /\ g_answers' = Append(g_answers,
                [source |-> "transfer", fqdn |-> zone, answer |-> answer])
        /\ g_records' = g_records \o
                          transferred_records(_zone_transfer(answer))
    /\ g_out' = Returns(unique_records(g_records'))
    /\ g_pc' = "done"
    /\ UNCHANGED <<engineVars, zoneVars, applyVars, mockVars, wireVars, concVars, cycleVars,
                   g_sub>>

NextRead == QueryApex \/ QuerySubdomain \/ ZoneTransfer

SpecRead == InitRead /\ [][NextRead]_vars

(***************************************************************************)
(* The in-memory provider driven by several callers at once.  The methods  *)
(* hold no lock: a thread switch can fall between two iterations of the    *)
(* scan and between the comparison and the assignment or the del.          *)
(***************************************************************************)
Callers == 1..MaxCallers

CallKinds == { "create", "update", "delete" }

\* a call as it is entered: the scan has not started
Entered(kind, record) ==
    [op |-> kind, record |-> record,
     pc |-> IF kind = "create" THEN "append" ELSE "scan",
     i |-> 1, out |-> "none"]

InitConc ==
    /\ mock_records \in SeqsUpTo(Records, MaxStored)
    /\ mock_records0 = mock_records
    /\ c_call \in [Callers -> { Entered(kind, record) :
                                  kind \in CallKinds, record \in Records }]
    /\ last_call = NotRun
    /\ calls = 0
    /\ csv_rows = <<>>
    /\ dry_run = FALSE
    /\ pc = "idle"
    /\ idx = 0
    /\ ops = <<>>
    /\ success_count = 0
    /\ result = NotRun
    /\ current = <<>>
    /\ currentKind = "records"
    /\ desired = <<>>
    /\ zone \in { <<"z">> }
    /\ changes = NotRun
    /\ csv_errors = NotRun
    /\ q_fqdn = <<>>
    /\ q_zone = <<>>
    /\ q_result = NotRun
    /\ WireIdle
    /\ ReadIdle
    /\ CycleIdle

ConcFrame ==
    UNCHANGED <<engineVars, zoneVars, csv_rows, dry_run, mock_records0, pc,
                idx, ops, success_count, result, mockVars, wireVars, readVars,
                cycleVars>>

\* create_record: self.records.append(record.copy())
ConcAppend(c) ==
    /\ c_call[c].pc = "append"
    /\ mock_records' = Append(mock_records, c_call[c].record)
    /\ c_call' = [c_call EXCEPT ![c].pc = "done", ![c].out = "returned"]
    /\ ConcFrame

\* one iteration of for i, existing in enumerate(self.records): the iterator
\* ends when its position is past the list as it is now (ValueError after the
\* loop); otherwise the record at the position is compared
ConcScan(c) ==
    /\ c_call[c].pc = "scan"
    /\ LET i == c_call[c].i
       IN  c_call' =
             IF i > Len(mock_records)
             THEN [c_call EXCEPT ![c].pc = "done", ![c].out = "not_found"]
             ELSE IF mock_normalize_fqdn(mock_records[i].fqdn)
                        = mock_normalize_fqdn(c_call[c].record.fqdn)
             THEN [c_call EXCEPT ![c].pc = "modify"]
             ELSE [c_call EXCEPT ![c].i = i + 1]
    /\ mock_records' = mock_records
    /\ ConcFrame

\* self.records[i] = record.copy() of update_record, del self.records[i] of
\* delete_record: IndexError when the list has become shorter
ConcModify(c) ==
    /\ c_call[c].pc = "modify"
    /\ LET i == c_call[c].i
       IN  IF i > Len(mock_records)
           THEN /\ mock_records' = mock_records
                /\ c_call' = [c_call EXCEPT ![c].pc = "done",
                                            ![c].out = "index_error"]
           ELSE /\ mock_records' =
                     IF c_call[c].op = "update"
                     THEN [mock_records EXCEPT ![i] = c_call[c].record]
                     ELSE SubSeq(mock_records, 1, i - 1)
                            \o SubSeq(mock_records, i + 1, Len(mock_records))
                /\ c_call' = [c_call EXCEPT ![c].pc = "done",
                                            ![c].out = "returned"]
    /\ ConcFrame

NextConc ==
    \E c \in Callers : ConcAppend(c) \/ ConcScan(c) \/ ConcModify(c)

SpecConc == InitConc /\ [][NextConc]_vars

(***************************************************************************)
(* Several reconcile-and-apply cycles of DNSManager against one zone, held *)
(* by one in-memory provider whose operations are taken one at a time.     *)
(* Cycle k wants its own record and a record all cycles share.             *)
(***************************************************************************)
Cycles == 1..MaxCycles

CycleZone == <<"z">>

CycleLabels == << <<"c", "0">>, <<"c", "1">>, <<"c", "2">>, <<"c", "3">> >>

\* {"fqdn": f"concurrent{thread_id}.<zone>", "ipv4": f"192.168.{thread_id}.100"}
OwnRecord(k) ==
    [fqdn |-> CycleLabels[k] \o <<".">> \o CycleZone,
     ipv4 |-> <<"192.168.0.100", "192.168.1.100", "192.168.2.100",
                "192.168.3.100">>[k]]

\* {"fqdn": "ns1.<zone>", "ipv4": "192.168.1.110"}
SharedRecord ==
    [fqdn |-> <<"n", "s", "1", ".">> \o CycleZone, ipv4 |-> "192.168.1.110"]

InitCycles ==
    /\ mock_records \in { <<>>, <<SharedRecord>> }
    /\ mock_records0 = mock_records
    /\ zone = CycleZone
    /\ y_cycle = [k \in Cycles |->
                    [pc |-> "fetch", desired |-> <<OwnRecord(k), SharedRecord>>,
                     current |-> <<>>, changes |-> NotRun, idx |-> 0,
                     success_count |-> 0, result |-> NotRun]]
    /\ last_call = NotRun
    /\ calls = 0
    /\ csv_rows = <<>>
    /\ dry_run = FALSE
    /\ pc = "idle"
    /\ idx = 0
    /\ ops = <<>>
    /\ success_count = 0
    /\ result = NotRun
    /\ current = <<>>
    /\ currentKind = "records"
    /\ desired = <<>>
    /\ changes = NotRun
    /\ csv_errors = NotRun
    /\ q_fqdn = <<>>
    /\ q_zone = <<>>
    /\ q_result = NotRun
    /\ WireIdle
    /\ ReadIdle
    /\ ConcIdle

CycleFrame ==
    UNCHANGED <<engineVars, zoneVars, csv_rows, dry_run, mock_records0, pc,
                idx, ops, success_count, result, mockVars, wireVars, readVars,
                concVars>>

\* current_records = self.dns_client.get_records(zone)
CycleGetRecords(k) ==
    /\ y_cycle[k].pc = "fetch"
    /\ y_cycle' = [y_cycle EXCEPT ![k].current = mock_get_records(mock_records),
                                  ![k].pc = "analyze"]
    /\ mock_records' = mock_records
    /\ CycleFrame

\* changes = analyze_changes(...), then the dry-run and total_changes tests
CycleAnalyze(k) ==
    /\ y_cycle[k].pc = "analyze"
    /\ LET chg == analyze_changes(y_cycle[k].current, "records",
                                  y_cycle[k].desired, zone)
           then == after_analysis(chg, FALSE)
       IN  y_cycle' = [y_cycle EXCEPT ![k].changes = chg, ![k].idx = 1,
                                      ![k].pc = then.pc,
                                      ![k].result = then.result]
    /\ mock_records' = mock_records
    /\ CycleFrame

\* one iteration of a loop of _apply_changes
CycleApplyOp(k) ==
    /\ y_cycle[k].pc = "apply"
    /\ y_cycle[k].idx <= Len(apply_plan(y_cycle[k].changes))
    /\ LET plan == apply_plan(y_cycle[k].changes)
           op == plan[y_cycle[k].idx]
           out == provider_call(op.op, mock_records, op.record, FALSE)
       IN  /\ mock_records' = out.records
           /\ y_cycle' = [y_cycle EXCEPT
                 ![k].success_count = IF out.ok THEN @ + 1 ELSE @,
                 ![k].idx = next_index(@, out.ok, Len(plan))]
    /\ CycleFrame

\* return success_count == total_changes, handed on by process_csv
CycleFinish(k) ==
    /\ y_cycle[k].pc = "apply"
    /\ y_cycle[k].idx > Len(apply_plan(y_cycle[k].changes))
    /\ y_cycle' = [y_cycle EXCEPT
          ![k].result = apply_result(y_cycle[k].success_count,
                                     y_cycle[k].changes.total_changes),
          ![k].pc = "done"]
    /\ mock_records' = mock_records
    /\ CycleFrame

NextCycles ==
    \E k \in Cycles :
        CycleGetRecords(k) \/ CycleAnalyze(k) \/ CycleApplyOp(k) \/ CycleFinish(k)

SpecCycles == InitCycles /\ [][NextCycles]_vars

(***************************************************************************)
(* Notions the claims are stated in.                                       *)
(***************************************************************************)
\* fqdn lies inside zone z on a label boundary: its normalized form equals
\* the normalized zone or ends with "." followed by it
UnderZone(fqdn, z) ==
    LET f == _normalize_fqdn(fqdn)
        zz == _normalize_fqdn(z)
    IN  f = zz \/ endswith(f, <<".">> \o zz)

\* two fqdns that differ at most by trailing dots
SameName(a, b) == _normalize_fqdn(a) = _normalize_fqdn(b)

lower_char(c) == IF c = "A" THEN "a" ELSE c

lower(s) == [i \in 1..Len(s) |-> lower_char(s[i])]

\* two fqdns that differ at most in letter case
SameUpToCase(a, b) == lower(a) = lower(b)

Range(s) == { s[i] : i \in 1..Len(s) }

Analyzed == changes # NotRun

Succeeded == changes.status = "ok"

FqdnInCurrent(d) == \E c \in Range(current) : SameName(c.fqdn, d.fqdn)

PairInCurrent(d) ==
    \E c \in Range(current) : SameName(c.fqdn, d.fqdn) /\ c.ipv4 = d.ipv4

\* C1: whenever some desired record lies outside the zone, analyze_changes
\* fails with an error and returns no change set.
C1_ZoneSafetyRejects ==
    (Analyzed /\ \E d \in Range(desired) : ~ UnderZone(d.fqdn, zone))
        => changes.status = "error"

\* C2: _is_in_zone returns true exactly when the normalized fqdn equals the
\* normalized zone or ends with "." followed by the zone (label boundary).
C2_InZoneOnLabelBoundary ==
    q_result # NotRun => (q_result.value <=> UnderZone(q_fqdn, q_zone))

\* C3: no record of the returned deletes list has an fqdn outside the zone.
C3_NoDeleteOutsideZone ==
    (Analyzed /\ Succeeded)
        => \A r \in Range(changes.deletes) : UnderZone(r.fqdn, zone)

\* C4: creates, updates and unchanged partition the desired list: unchanged
\* are the desired records whose (fqdn, ipv4) is in current, updates those
\* whose fqdn is in current with no matching ipv4, creates those whose fqdn
\* is not in current.
C4_PartitionOfDesired ==
    (Analyzed /\ Succeeded) =>
        LET Unchanged(d) == PairInCurrent(d)
            Update(d) == FqdnInCurrent(d) /\ ~ PairInCurrent(d)
            Create(d) == ~ FqdnInCurrent(d)
        IN  /\ changes.no_changes = SelectSeq(desired, Unchanged)
            /\ changes.updates = SelectSeq(desired, Update)
            /\ changes.creates = SelectSeq(desired, Create)

\* C5: the deletes list is exactly the current records that lie inside the
\* zone and whose normalized fqdn appears in no desired record.
C5_DeletesExactlyInZoneAbsent ==
    (Analyzed /\ Succeeded) =>
        LET Absent(c) ==
                /\ UnderZone(c.fqdn, zone)
                /\ \A d \in Range(desired) : ~ SameName(c.fqdn, d.fqdn)
        IN  changes.deletes = SelectSeq(current, Absent)

\* C6: no record in deletes has the same normalized fqdn as a desired record.
C6_NoDeleteOfDesiredName ==
    (Analyzed /\ Succeeded) =>
        \A r \in Range(changes.deletes) :
            \A d \in Range(desired) : ~ SameName(r.fqdn, d.fqdn)

\* C6 witness: a name whose address changes is reported as an update while
\* another current record is queued for deletion.
C6_Witness ==
    /\ Analyzed /\ Succeeded
    /\ changes.deletes # <<>>
    /\ \E u \in Range(changes.updates) :
          \E c \in Range(current) : SameName(c.fqdn, u.fqdn) /\ c.ipv4 # u.ipv4

\* C7 as stated: total_changes is the sum of creates, updates and deletes,
\* and unchanged plus total_changes equals len(desired).
C7_TotalsAsStated ==
    (Analyzed /\ Succeeded) =>
        /\ changes.total_changes =
              Len(changes.creates) + Len(changes.updates) + Len(changes.deletes)
        /\ Len(changes.no_changes) + changes.total_changes = Len(desired)

\* C7 amended: total_changes is the sum of creates, updates and deletes, and
\* unchanged plus total_changes equals len(desired) plus len(deletes).
C7_Totals ==
    (Analyzed /\ Succeeded) =>
        /\ changes.total_changes =
              Len(changes.creates) + Len(changes.updates) + Len(changes.deletes)
        /\ Len(changes.no_changes) + changes.total_changes =
              Len(desired) + Len(changes.deletes)

\* C7 witness: a successful analysis with desired records and deletes.
C7_Witness ==
    /\ Analyzed /\ Succeeded
    /\ desired # <<>>
    /\ changes.deletes # <<>>
    /\ changes.no_changes # <<>>

\* C8: a desired record equal to a current record up to a trailing dot and
\* with the same ipv4 is classified as unchanged.
C8_TrailingDotIsUnchanged ==
    (Analyzed /\ Succeeded) =>
        \A d \in Range(desired) :
            PairInCurrent(d) =>
                /\ d \in Range(changes.no_changes)
                /\ d \notin Range(changes.updates)
                /\ d \notin Range(changes.creates)

\* C9: fqdns that differ only in letter case are the same entity for the
\* zone check, for the classification and for delete detection.
C9_CaseInsensitive ==
    (Analyzed /\ Succeeded) =>
        /\ \A d \in Range(desired) :
              (\E c \in Range(current) :
                  SameUpToCase(c.fqdn, d.fqdn) /\ c.ipv4 = d.ipv4)
                  => d \in Range(changes.no_changes)
        /\ \A d \in Range(desired) :
              (\E c \in Range(current) : SameUpToCase(c.fqdn, d.fqdn))
                  => d \notin Range(changes.creates)
        /\ \A r \in Range(changes.deletes) :
              \A d \in Range(desired) : ~ SameUpToCase(r.fqdn, d.fqdn)
        /\ \A r \in Range(current) \cup Range(desired) :
              _is_in_zone(r.fqdn, zone) <=> _is_in_zone(lower(r.fqdn), lower(zone))

\* C10: a desired list with two records of the same normalized fqdn makes
\* analyze_changes fail and return no change set.
C10_DuplicatesRejected ==
    (Analyzed /\ \E i, j \in 1..Len(desired) :
                    i # j /\ SameName(desired[i].fqdn, desired[j].fqdn))
        => changes.status = "error"

(***************************************************************************)
(* Notions of the claims about process_csv and _apply_changes.             *)
(***************************************************************************)
\* process_csv has returned
Returned == pc = "done"

\* the run was live and analyze_changes returned a change set
LiveRun == ~ dry_run /\ changes # NotRun /\ changes.status = "ok"

\* _apply_changes has run to its return statement
Applied == Returned /\ LiveRun /\ changes.total_changes > 0

AllSucceeded == \A i \in 1..Len(ops) : ops[i].ok

\* C11: after a live run in which every operation succeeded, analyze_changes
\* on the provider's new records and the same desired list has
\* total_changes = 0.
C11_SecondRunHasNoChanges ==
    (Returned /\ LiveRun /\ Len(ops) = changes.total_changes /\ AllSucceeded)
        => LET second == analyze_changes(mock_get_records(mock_records),
                                         "records", desired, zone)
           IN  second.status = "ok" /\ second.total_changes = 0

Rank(kind) == IF kind = "create" THEN 1 ELSE IF kind = "update" THEN 2 ELSE 3

\* the records of the attempted operations of one kind, in their order
Attempted(kind) ==
    LET IsKind(o) == o.op = kind
        sel == SelectSeq(ops, IsKind)
    IN  [i \in 1..Len(sel) |-> sel[i].record]

IsPrefix(p, q) == Len(p) <= Len(q) /\ p = SubSeq(q, 1, Len(p))

\* C12: every create is attempted before any update and every update before
\* any delete, each list in its own order.
C12_FixedOrder ==
    (LiveRun /\ pc \in {"apply", "done"}) =>
        /\ \A i, j \in 1..Len(ops) : i < j => Rank(ops[i].op) <= Rank(ops[j].op)
        /\ IsPrefix(Attempted("create"), changes.creates)
        /\ IsPrefix(Attempted("update"), changes.updates)
        /\ IsPrefix(Attempted("delete"), changes.deletes)
        /\ Attempted("update") # <<>> => Attempted("create") = changes.creates
        /\ Attempted("delete") # <<>> =>
              /\ Attempted("create") = changes.creates
              /\ Attempted("update") = changes.updates

\* C12 witness: a finished batch that attempted a create, an update and a
\* delete.
C12_Witness ==
    /\ Applied
    /\ Attempted("create") # <<>>
    /\ Attempted("update") # <<>>
    /\ Attempted("delete") # <<>>

\* C13: when _apply_changes returns, every record of creates, updates and
\* deletes has been attempted exactly once, whichever operations failed.
C13_RunsToCompletion ==
    Applied =>
        /\ Attempted("create") = changes.creates
        /\ Attempted("update") = changes.updates
        /\ Attempted("delete") = changes.deletes
        /\ Len(ops) = changes.total_changes

\* C13 witness: a finished batch in which an operation failed and a later
\* one was attempted.
C13_Witness ==
    /\ Applied
    /\ \E i, j \in 1..Len(ops) : i < j /\ ~ ops[i].ok /\ ops[j].ok

Listed(r) == \E k \in 1..Len(mock_records) : mock_records[k] = r

\* number of records of recs stored under the normalized fqdn
CountName(recs, fqdn) ==
    Cardinality({ k \in 1..Len(recs) : SameName(recs[k].fqdn, fqdn) })

\* number of succeeded deletes of the normalized fqdn
DeletedOk(fqdn) ==
    Cardinality({ i \in 1..Len(ops) :
        ops[i].ok /\ ops[i].op = "delete" /\ SameName(ops[i].record.fqdn, fqdn) })

\* C14: when _apply_changes returns, succeeded is the number of operations
\* that did not fail, total is the number of operations of the change set,
\* and the effect of every succeeded operation shows in get_records: a
\* created or updated record is listed, and each succeeded delete has taken
\* one record of its fqdn out of the list.
C14_SucceededEffectsVisible ==
    Applied =>
        /\ success_count = Cardinality({ i \in 1..Len(ops) : ops[i].ok })
        /\ changes.total_changes =
              Len(changes.creates) + Len(changes.updates) + Len(changes.deletes)
        /\ \A i \in 1..Len(ops) :
              ops[i].ok =>
                  IF ops[i].op = "delete"
                  THEN CountName(mock_records, ops[i].record.fqdn) =
                          CountName(mock_records0, ops[i].record.fqdn)
                              - DeletedOk(ops[i].record.fqdn)
                  ELSE Listed(ops[i].record)

\* the collection after the succeeded operations of os, from the i-th on
RECURSIVE Replay(_, _, _)
Replay(recs, os, i) ==
    IF i > Len(os) THEN recs
    ELSE Replay(provider_call(os[i].op, recs, os[i].record, ~ os[i].ok).records,
                os, i + 1)

\* C15: a live run returns True exactly when every operation of the change
\* set succeeded, and the operations that succeeded stay applied.
C15_SuccessIffAllSucceeded ==
    (Returned /\ LiveRun) =>
        /\ result = TRUE <=> (Len(ops) = changes.total_changes /\ AllSucceeded)
        /\ success_count < changes.total_changes => result = FALSE
        /\ mock_records = Replay(mock_records0, ops, 1)

\* C15 witness: a run that returned False after an operation succeeded and
\* changed the provider.
C15_Witness ==
    /\ Applied
    /\ result = FALSE
    /\ \E i \in 1..Len(ops) : ops[i].ok
    /\ mock_records # mock_records0

\* C16: in dry-run mode no provider operation is invoked, the provider's
\* collection stays as it was, and the call returns True when the analysis
\* succeeds.
C16_DryRunChangesNothing ==
    dry_run =>
        /\ ops = <<>>
        /\ mock_records = mock_records0
        /\ (Returned /\ changes # NotRun /\ changes.status = "ok")
              => result = TRUE

\* C16 witness: a dry run that returned with changes to report.
C16_Witness ==
    /\ dry_run
    /\ Returned
    /\ changes # NotRun
    /\ changes.status = "ok"
    /\ changes.total_changes > 0

\* C17: when a desired record lies outside the zone, process_csv invokes no
\* provider operation and returns False.
C17_ZoneViolationAborts ==
    (\E d \in Range(desired) : ~ UnderZone(d.fqdn, zone)) =>
        /\ ops = <<>>
        /\ mock_records = mock_records0
        /\ Returned => result = FALSE


(***************************************************************************)
(* Claims about the in-memory provider called directly (SpecMock).         *)
(***************************************************************************)
\* a direct call of the operation kind has been made
DirectCall(kind) == last_call # NotRun /\ last_call.op = kind

\* some record of recs has the normalized fqdn of record
Stores(recs, record) ==
    \E i \in 1..Len(recs) :
        mock_normalize_fqdn(recs[i].fqdn) = mock_normalize_fqdn(record.fqdn)

\* C18: on the in-memory provider, update_record and delete_record fail with
\* a not-found error when no stored record has the given normalized fqdn, and
\* the stored collection is then left unchanged.
C18_NotFoundLeavesUnchanged ==
    (/\ DirectCall("update") \/ DirectCall("delete")
     /\ ~Stores(last_call.before, last_call.record))
        => /\ ~last_call.ok
           /\ mock_get_records(mock_records) = last_call.before

\* an update of a name that is not stored, on a provider that stores others
C18_Witness ==
    /\ DirectCall("update")
    /\ last_call.before # <<>>
    /\ ~Stores(last_call.before, last_call.record)
    /\ ~last_call.ok

\* C19: after a successful update_record(zone, r) on the in-memory provider,
\* reached through any sequence of earlier create/update/delete calls, every
\* record listed by get_records for r's normalized fqdn has ipv4 equal to
\* r.ipv4, and the number of stored records is unchanged.
C19_UpdateSetsTheAddress ==
    (DirectCall("update") /\ last_call.ok)
        => LET listed == mock_get_records(mock_records)
           IN  /\ \A i \in 1..Len(listed) :
                    mock_normalize_fqdn(listed[i].fqdn)
                        = mock_normalize_fqdn(last_call.record.fqdn)
                    => listed[i].ipv4 = last_call.record.ipv4
               /\ Len(listed) = Len(last_call.before)

(***************************************************************************)
(* Claims about one write of the BIND provider (SpecWire).                 *)
(***************************************************************************)
\* the write has ended
WireDone == w_pc = "done"

\* the write ended on the protocol path, with this answer of dns.query.tcp
ProtocolEnded(reply) ==
    /\ WireDone
    /\ w_events # <<>>
    /\ w_events[Len(w_events)] = Event("dns.query.tcp", reply)

\* C20: every write of the wire provider (create_record, update_record,
\* delete_record) sent over the protocol path raises when the server's
\* response code is not NOERROR and when the transport call itself fails; it
\* returns normally only on NOERROR.
C20_ProtocolFailureRaises ==
    \A reply \in Replies :
        ProtocolEnded(reply) =>
            /\ reply # "NOERROR" => w_out = Raised
            /\ reply = "NOERROR" => w_out.status = "returned"

\* an update_record that fell back to the protocol path and was refused
C20_Witness ==
    /\ ProtocolEnded("REFUSED")
    /\ w_op = "update"
    /\ w_events[1] = Event("which", "found")
    /\ w_out = Raised


\* the write has ended, counted by its caller or not yet
WriteEnded == w_pc \in { "done", "counted" }

\* the last thing the write met outside the process
LastEvent == w_events[Len(w_events)]

\* the path that ended the write failed: the reload command did not exit
\* with status 0, or the UPDATE was not answered with NOERROR
EndingPathFailed ==
    /\ WriteEnded
    /\ w_events # <<>>
    /\ \/ LastEvent.ev = "rndc reload" /\ LastEvent.arg # "0"
       \/ LastEvent.ev = "dns.query.tcp" /\ LastEvent.arg # "NOERROR"

\* C21: whichever write path is attempted, a failed attempt is never reported
\* as success: if the path that ends update_record failed (a reload command
\* that exits non-zero included), update_record raises and the apply engine
\* does not count the operation as succeeded.
C21_FailureNeverReportedAsSuccess ==
    (w_op = "update" /\ EndingPathFailed)
        => /\ w_out = Raised
           /\ w_pc = "counted" => w_success_count = 0


(***************************************************************************)
(* Claims about get_records of the BIND provider (SpecRead).               *)
(***************************************************************************)
\* get_records has ended
ReadDone == g_pc = "done"

\* the source asked i-th met a hard transport failure
TransportFailed(i) == g_answers[i].answer.status = "transport_error"

\* the apex query is the first source asked
ApexTransportFailed == g_answers # <<>> /\ TransportFailed(1)

\* C22: get_records of the wire provider does not raise when a subdomain
\* query finds nothing or when the zone transfer is refused, but a hard
\* transport failure during the apex query propagates to the caller as an
\* error.
C22_OnlyApexFailurePropagates ==
    ReadDone =>
        IF ApexTransportFailed THEN g_out = Raised
        ELSE g_out.status = "returned"

\* the (fqdn, ipv4) pairs of a list of records
Pairs(records) ==
    { <<records[i].fqdn, records[i].ipv4>> : i \in 1..Len(records) }

\* the pairs the source asked i-th returned, under the normalized fqdn
SourcePairs(i) ==
    LET a == g_answers[i]
    IN  IF a.source = "transfer"
        THEN { <<bind_normalize_fqdn(a.answer.nodes[k].fqdn),
                 a.answer.nodes[k].ipv4>> : k \in 1..Len(a.answer.nodes) }
        ELSE { <<bind_normalize_fqdn(a.fqdn), a.answer.ips[k]>> :
                 k \in 1..Len(a.answer.ips) }

\* C23: the list get_records returns is the deduplicated union of the apex
\* query, the subdomain queries and the zone transfer: it holds every
\* (fqdn, ipv4) pair a source returned, no other pair, and no pair twice.
C23_DeduplicatedUnion ==
    (ReadDone /\ g_out.status = "returned") =>
        /\ Pairs(g_out.value) = UNION { SourcePairs(i) : i \in 1..Len(g_answers) }
        /\ Cardinality(Pairs(g_out.value)) = Len(g_out.value)

\* the transfer returned a pair a query had returned, and a second address
\* for the same name
C23_Witness ==
    /\ ReadDone
    /\ g_out.status = "returned"
    /\ \E i, j \in 1..Len(g_answers) :
        /\ i < j
        /\ SourcePairs(i) \cap SourcePairs(j) # {}
        /\ g_answers[j].source = "transfer"
    /\ \E r1, r2 \in Range(g_out.value) :
        r1.fqdn = r2.fqdn /\ r1.ipv4 # r2.ipv4


(***************************************************************************)
(* Claims about concurrent callers of the in-memory provider (SpecConc).   *)
(***************************************************************************)
\* every caller has left the provider
AllReturned == c_call # <<>> /\ \A c \in Callers : c_call[c].pc = "done"

\* the orders in which the callers can be put one after the other
CallOrders ==
    { o \in [1..MaxCallers -> Callers] :
        \A a, b \in 1..MaxCallers : a # b => o[a] # o[b] }

\* the collection and the outcomes when the calls run one after the other in
\* the order o, from the collection recs, the first n of them
RECURSIVE RunInOrder(_, _, _)
RunInOrder(recs, o, n) ==
    IF n = 0 THEN [records |-> recs, out |-> [c \in {} |-> "none"]]
    ELSE LET before == RunInOrder(recs, o, n - 1)
             call == c_call[o[n]]
             done == provider_call(call.op, before.records, call.record, FALSE)
         IN  [records |-> done.records,
              out |-> [c \in DOMAIN before.out \cup {o[n]} |->
                         IF c = o[n]
                         THEN IF done.ok THEN "returned" ELSE "not_found"
                         ELSE before.out[c]]]

\* C24: the in-memory provider serializes access by concurrent callers: for
\* any interleaving of create_record, update_record and delete_record calls,
\* the final collection and each call's outcome equal those of some
\* sequential order of the calls.
C24_Serialized ==
    AllReturned =>
        \E o \in CallOrders :
            LET seq == RunInOrder(mock_records0, o, MaxCallers)
            IN  /\ mock_records = seq.records
                /\ \A c \in Callers : c_call[c].out = seq.out[c]


(***************************************************************************)
(* Claims about concurrent reconcile-and-apply cycles (SpecCycles).        *)
(***************************************************************************)
\* every cycle has returned
AllCyclesDone == y_cycle # <<>> /\ \A k \in Cycles : y_cycle[k].pc = "done"

\* the zone lists a record of r's name, and every such record has r's address
Resolves(r) ==
    /\ \E i \in 1..Len(mock_records) : mock_records[i].fqdn = r.fqdn
    /\ \A i \in 1..Len(mock_records) :
         mock_records[i].fqdn = r.fqdn => mock_records[i].ipv4 = r.ipv4

\* C25: when several reconcile-and-apply cycles run concurrently against the
\* same zone, each with its own record plus a shared record, every cycle
\* reports success and afterwards the zone contains every cycle's own record
\* with its expected address.
C25_ConcurrentCyclesAllSucceed ==
    AllCyclesDone =>
        /\ \A k \in Cycles : y_cycle[k].result = TRUE
        /\ \A k \in Cycles : Resolves(OwnRecord(k))


(***************************************************************************)
(* Claims about the paths of one write of the BIND provider (SpecWire).    *)
(***************************************************************************)
\* the write has left Start
LeftStart == w_attempts # <<>>

\* the control tool was found when update_record looked for it at its entry
ToolFoundAtEntry ==
    w_events # <<>> /\ w_events[1] = Event("which", "found")

\* the administrative path raised: reload_zone did not find the control tool
AdminRaised ==
    Len(w_events) >= 2 /\ w_events[2] = Event("which", "missing")

\* C26: a single write follows Start -> {ProtocolAttempt | AdminAttempt} ->
\* Success | Failure: update_record attempts the administrative path first
\* exactly when a zone file is configured and the control tool is available,
\* attempts the protocol path only if the administrative path was not
\* attempted or raised, sends at most one UPDATE message per call, and
\* create_record and delete_record never attempt the administrative path.
C26_WritePaths ==
    /\ w_attempts \in { <<>>, <<"admin">>, <<"protocol">>,
                        <<"admin", "protocol">> }
    /\ (LeftStart /\ w_op = "update")
          => (w_attempts[1] = "admin" <=> (w_zone_file /\ ToolFoundAtEntry))
    /\ w_attempts = <<"admin", "protocol">> => AdminRaised
    /\ Len(w_sent) <= 1
    /\ Len(w_sent) = 1 => "protocol" \in Range(w_attempts)
    /\ w_op \in { "create", "delete" } => "admin" \notin Range(w_attempts)
    /\ WriteEnded => /\ LeftStart
                     /\ w_out.status \in { "returned", "raised" }
    /\ w_out # NotRun => WriteEnded

\* an update_record whose administrative path raised and whose one UPDATE
\* message was then accepted
C26_Witness ==
    /\ w_op = "update"
    /\ WriteEnded
    /\ w_attempts = <<"admin", "protocol">>
    /\ Len(w_sent) = 1
    /\ w_out = Returns("None")

\* the write ended on the administrative path and returned True
AdminSucceeded ==
    /\ w_op = "update"
    /\ WriteEnded
    /\ w_attempts = <<"admin">>
    /\ w_out = Returns("True")

\* C27: an update_record that succeeds through the administrative path has,
\* before the reload command is invoked, located or appended the zone-file
\* line for the target fqdn with the new address, incremented the zone
\* serial by exactly 1 and written the file back.
C27_ZoneFileEditedBeforeReload ==
    AdminSucceeded =>
        /\ \E i \in 1..Len(w_file.lines) :
              /\ w_file.lines[i].fqdn = w_record.fqdn
              /\ w_file.lines[i].ipv4 = w_record.ipv4
        /\ w_file.serial = w_file0.serial + 1
        /\ \E i, j \in 1..Len(w_events) :
              /\ i < j
              /\ w_events[i].ev = "write zone file"
              /\ w_events[j].ev = "rndc reload"


(***************************************************************************)
(* Claims about a whole run of process_csv (SpecApply), continued.         *)
(***************************************************************************)
\* the (normalized fqdn, ipv4) pairs of a list of records
NormalizedPairs(records) ==
    { <<_normalize_fqdn(records[i].fqdn), records[i].ipv4>> :
        i \in 1..Len(records) }

\* the records of a list that lie in the zone, and those that do not
InZone(records) ==
    LET In(r) == UnderZone(r.fqdn, zone) IN SelectSeq(records, In)

OutsideZone(records) ==
    LET Out(r) == ~ UnderZone(r.fqdn, zone) IN SelectSeq(records, Out)

\* a live run in which every operation of the change set succeeded
LiveRunAllSucceeded ==
    Returned /\ LiveRun /\ Len(ops) = changes.total_changes /\ AllSucceeded

\* C28: for any starting contents of the in-memory provider and any desired
\* list accepted by analyze_changes, after a live run in which every
\* operation succeeds, the (normalized fqdn, ipv4) pairs of the in-zone
\* records the provider lists are those of the desired list.
C28_Converges ==
    LiveRunAllSucceeded =>
        NormalizedPairs(InZone(mock_get_records(mock_records)))
            = NormalizedPairs(desired)

\* C29: a live run leaves everything outside the zone untouched: the records
\* whose fqdn is outside the zone are the same, with the same addresses,
\* after analyze_changes plus _apply_changes as before, whether operations
\* succeed or fail.
C29_OutsideZoneUntouched ==
    OutsideZone(mock_get_records(mock_records)) = OutsideZone(mock_records0)

\* C30: when the parsed desired list is empty, process_csv returns False
\* without reading the provider's records and without invoking
\* create_record, update_record or delete_record.
C30_EmptyInputChangesNothing ==
    (pc # "start" /\ desired = <<>>) =>
        /\ Returned
        /\ result = FALSE
        /\ current = <<>>
        /\ changes = NotRun
        /\ ops = <<>>
        /\ mock_records = mock_records0

\* a file whose rows were all rejected, against a provider that holds a
\* record of the zone
C30_Witness ==
    /\ Returned
    /\ csv_rows # <<>>
    /\ desired = <<>>
    /\ \E i \in 1..Len(mock_records) : UnderZone(mock_records[i].fqdn, zone)

====
